---- MODULE Spec2Model ----
(***************************************************************************)
(* Dipole detection and matching of wys_ars.rays.dipole_finder.Dipoles.    *)
(*                                                                         *)
(* Numbers.  Field values and amplitudes are integers.  Angles are whole   *)
(* degrees, kernel widths whole arc-minutes, positions whole multiples of  *)
(* 1/PosDen degree.  Every quotient the code forms is kept exact as a      *)
(* fraction [num, den] (den > 0); floating-point rounding is not modelled. *)
(* Thresholds are kept in units of 1/(10*nbins), which makes 1.1*max and   *)
(* the bin width whole numbers.                                            *)
(***************************************************************************)
EXTENDS Integers, Sequences, FiniteSets, TLC

\* ---------------------------------------------------------------- bounds
MaxPeaks == 2
MaxLocated == 1
MaxPos == 4
MaxBins == 3
MaxVal == 2
MaxCatalog == 2
MaxNpix == 6

\* positions are multiples of 1/PosDen degree
PosDen == 2

FieldLen == 2
Angles == {1, 2}
KernelWidths == {10, 30}
Directions == {0, 1}

ORIG == "orig"
FILTERED == "orig_ghpf_g3df_glpf"
VariantNames == {ORIG, FILTERED}

None == "none"

\* fields of the sky maps a run is started on, and of what the kernels return
RawFields == {<<1, 1>>, <<-1, 2>>}
FilteredFields == {<<1, 1>>, <<0, 2>>}

\* ---------------------------------------------------------------- helpers
RECURSIVE SeqMin(_), SeqMax(_), SeqSum(_), SelectMask(_, _)

\* np.min over all elements
SeqMin(s) ==
    IF Len(s) = 1 THEN s[1]
    ELSE LET m == SeqMin(Tail(s)) IN IF s[1] <= m THEN s[1] ELSE m

\* np.max over all elements
SeqMax(s) ==
    IF Len(s) = 1 THEN s[1]
    ELSE LET m == SeqMax(Tail(s)) IN IF s[1] >= m THEN s[1] ELSE m

SeqSum(s) == IF s = <<>> THEN 0 ELSE s[1] + SeqSum(Tail(s))

\* np.abs, elementwise
Abs(s) == [i \in DOMAIN s |-> IF s[i] < 0 THEN -s[i] ELSE s[i]]

\* floor and ceiling of the fraction a/b, b # 0
FloorDiv(a, b) == IF b > 0 THEN a \div b ELSE (-a) \div (-b)
CeilDiv(a, b) == -FloorDiv(-a, b)

\* boolean-mask indexing arr[indx]: the elements whose mask entry is TRUE,
\* in their original order
SelectMask(arr, indx) ==
    IF arr = <<>> THEN <<>>
    ELSE (IF indx[1] THEN <<arr[1]>> ELSE <<>>)
             \o SelectMask(Tail(arr), Tail(indx))

SeqsUpTo(S, n) == UNION {[1..k -> S] : k \in 0..n}

\* ------------------------------------------------------- exact fractions
Frac(n, d) == IF d > 0 THEN [num |-> n, den |-> d] ELSE [num |-> -n, den |-> -d]
FracLeq(a, b) == a.num * b.den <= b.num * a.den

\* np.rint: the nearest integer, a tie going to the even neighbour
Rint(q) ==
    LET f == FloorDiv(q.num, q.den)
        r == q.num - f * q.den
    IN  IF 2 * r < q.den THEN f
        ELSE IF 2 * r > q.den THEN f + 1
        ELSE IF f % 2 = 0 THEN f ELSE f + 1

\* results of a call: a value, or the exception it raised
Ok(v) == [ok |-> TRUE, val |-> v]
Raised(e) == [ok |-> FALSE, err |-> e]

\* --------------------------------------------------- threshold builder
\* np.arange(start, stop, step) on float64 scalars: ceil((stop-start)/step)
\* elements start + i*step; a zero step makes the length 0/0 and raises
Arange(start, stop, step) ==
    IF step = 0 THEN Raised("ValueError")
    ELSE LET n == CeilDiv(stop - start, step)
         IN  Ok(IF n <= 0 THEN <<>> ELSE [i \in 1..n |-> start + (i - 1) * step])

\* the denominator the thresholds of a run with nbins bins are kept in
ThrDen(nbins) == 10 * nbins

\* Dipoles._get_convergence_thresholds: bins from min to 1.1*max in steps of
\* (1.1*max - min)/nbins, all three in units of 1/ThrDen(nbins)
GetConvergenceThresholds(sky_array, nbins) ==
    Arange(ThrDen(nbins) * SeqMin(sky_array),
           11 * nbins * SeqMax(sky_array),
           11 * SeqMax(sky_array) - 10 * SeqMin(sky_array))

\* ------------------------------------------------- significance scorer
\* np.std: sqrt(mean((x - mean)^2)); kept as N^2 times the variance, a whole
\* number: std = sqrt(VarN2)/N
VarN2(map_values) ==
    Len(map_values) * SeqSum([i \in DOMAIN map_values |-> map_values[i] * map_values[i]])
        - SeqSum(map_values) * SeqSum(map_values)

\* float64 division peak/std: num/sqrt(den2) when std > 0, otherwise what
\* IEEE division by zero gives
DivideByStd(peak, map_values) ==
    IF VarN2(map_values) = 0
    THEN (IF peak > 0 THEN "inf" ELSE IF peak < 0 THEN "-inf" ELSE "nan")
    ELSE [num |-> peak * Len(map_values), den2 |-> VarN2(map_values)]

\* Dipoles._signal_to_noise_ratio
SignalToNoiseRatio(peak_values, map_values) ==
    [i \in DOMAIN peak_values |-> DivideByStd(peak_values[i], map_values)]

\* ------------------------------------------------------- edge rejector
\* the buffer rounded down instead of up
BufferLenFloor(npix, opening_angle, kernel_width) ==
    FloorDiv(kernel_width * npix, 60 * opening_angle)

\* bufferlen = np.ceil(kernel_width / (60 * pixlen)), pixlen = opening_angle/npix
BufferLen(npix, opening_angle, kernel_width) ==
    CeilDiv(kernel_width * npix, 60 * opening_angle)

\* degrees to pixel number: pos * npix / opening_angle
ToPixel(p, npix, opening_angle) == Frac(p * npix, PosDen * opening_angle)

\* x <= npix - 1 - bufferlen and x >= bufferlen
InsideAxis(x, npix, bufferlen) ==
    /\ FracLeq(x, Frac(npix - 1 - bufferlen, 1))
    /\ FracLeq(Frac(bufferlen, 1), x)

\* the mask indx
EdgeMask(npix, opening_angle, kernel_width, pos) ==
    [i \in DOMAIN pos |->
        /\ InsideAxis(ToPixel(pos[i][1], npix, opening_angle), npix,
                      BufferLen(npix, opening_angle, kernel_width))
        /\ InsideAxis(ToPixel(pos[i][2], npix, opening_angle), npix,
                      BufferLen(npix, opening_angle, kernel_width))]

\* the amplitudes masked, the positions returned as they came
RemovePeaksUnmaskedPos(npix, opening_angle, kernel_width, sigma, pos) ==
    [sigma |-> SelectMask(sigma, EdgeMask(npix, opening_angle, kernel_width, pos)),
     pos |-> pos]

\* Dipoles._remove_peaks_crossing_edge
RemovePeaksCrossingEdge(npix, opening_angle, kernel_width, sigma, pos) ==
    [sigma |-> SelectMask(sigma, EdgeMask(npix, opening_angle, kernel_width, pos)),
     pos |-> SelectMask(pos, EdgeMask(npix, opening_angle, kernel_width, pos))]

\* ------------------------------------------------------ catalog matcher
\* squared Euclidean distance between two (x_deg, y_deg) points; the
\* distance itself is its square root
Dist2(a, b) == (a[1] - b[1]) * (a[1] - b[1]) + (a[2] - b[2]) * (a[2] - b[2])

\* the 0-based indices of the fitted points nearest to q
NearestTo(fitted, q) ==
    {i - 1 : i \in {k \in DOMAIN fitted :
                        \A m \in DOMAIN fitted : Dist2(fitted[k], q) <= Dist2(fitted[m], q)}}

\* NearestNeighbors(n_neighbors=1).fit(fitted).kneighbors(queries): for each
\* query point the index of, and the distance to, a nearest fitted point.
\* Which of several equally near points is returned is left open.  Fitting
\* on no points, or querying none, raises.
KNeighbors(fitted, queries) ==
    IF fitted = <<>> \/ queries = <<>> THEN {Raised("ValueError")}
    ELSE {Ok([indices |-> ind,
              distances |-> [j \in DOMAIN queries |->
                                [sq |-> Dist2(fitted[ind[j] + 1], queries[j])]]]) :
            ind \in {f \in [DOMAIN queries -> 0..(Len(fitted) - 1)] :
                        \A j \in DOMAIN queries : f[j] \in NearestTo(fitted, queries[j])}}

\* ------------------------------------------------ directional filter
Step(kind, theta_i, dir) == [kind |-> kind, theta_i |-> theta_i, direction |-> dir]

\* SkyMap.convolution(filter_dsc, ..., rtn=True): the kernels of filter_dsc
\* applied one after the other, in the order filter_dsc lists them, to the
\* source array; the result is returned and nothing is stored.  The kernels
\* are not part of this model: any field may come out, and the array carries
\* the steps it went through.
Convolution(filter_dsc, sky_array, outs) ==
    {[vals |-> v, hist |-> sky_array.hist \o filter_dsc] : v \in outs}

\* dict assignment d[k] = v
Put(d, k, v) == [x \in (DOMAIN d) \cup {k} |-> IF x = k THEN v ELSE d[x]]

\* what the kernels can return for an array with the steps hist: the same
\* steps on the same raw map give the same values again
KernelOutputs(sky, hist) ==
    IF FILTERED \in DOMAIN sky.data /\ sky.data[FILTERED].hist = hist
    THEN {sky.data[FILTERED].vals}
    ELSE FilteredFields

\* the two kernels of the first convolution listed the other way round
DerivativeHighPass(kernel_width, direction) ==
    << Step("gaussian_third_derivative", kernel_width, direction),
       Step("gaussian_high_pass", kernel_width, None) >>

\* filter_dsc of the first convolution: high-pass, then third derivative
HighPassDerivative(kernel_width, direction) ==
    << Step("gaussian_high_pass", kernel_width, None),
       Step("gaussian_third_derivative", kernel_width, direction) >>

\* filter_dsc of the second convolution: low-pass
LowPass(kernel_width) == << Step("gaussian_low_pass", kernel_width, None) >>

\* np.abs(_map)
AbsMap(m) == [vals |-> Abs(m.vals), hist |-> Append(m.hist, Step("abs", None, None))]

\* _filter keeping the result of its first convolution as a variant too
FilterKeepsIntermediate(sky, kernel_width, direction) ==
    UNION {
        {[sky EXCEPT !.data = Put(Put(@, "orig_ghpf_g3df", m), FILTERED, out)] :
            out \in Convolution(LowPass(kernel_width), AbsMap(m),
                                KernelOutputs(sky, AbsMap(m).hist \o LowPass(kernel_width)))} :
        m \in Convolution(HighPassDerivative(kernel_width, direction),
                          sky.data[ORIG], RawFields \cup FilteredFields)}

\* Dipoles._filter: the skymaps it can return
Filter(sky, kernel_width, direction) ==
    {[sky EXCEPT !.data = Put(@, FILTERED, out)] :
        out \in UNION {
            Convolution(LowPass(kernel_width), AbsMap(m),
                        KernelOutputs(sky, AbsMap(m).hist \o LowPass(kernel_width))) :
            m \in Convolution(HighPassDerivative(kernel_width, direction),
                              sky.data[ORIG], RawFields \cup FilteredFields)}}

\* --------------------------------------------------------------- state
VARIABLES
    skymap,      \* the SkyMap: data (variant name -> array), npix, opening_angle
    args,        \* the arguments of the running from_sky call
    pc,          \* where the call stands
    thresholds,  \* thresholds, [bins, den]: bins[i]/den
    thr_src,     \* the arrays _get_convergence_thresholds was called on, in order
    located,     \* what locatePeaks returned: [deltaT, pos_deg]
    deltaT,      \* amplitudes after edge rejection
    pos_deg,     \* positions after edge rejection
    snr,         \* peak_dir["snr"]
    peak_df,     \* the peak table of the Dipoles object
    df2,         \* the catalog find_nearest was called with
    error        \* the exception the call raised

vars == <<skymap, args, pc, thresholds, thr_src, located, deltaT, pos_deg, snr,
          peak_df, df2, error>>

RawArray(v) == [vals |-> v, hist |-> <<>>]

\* a SkyMap as constructed: the raw map only
NewSkyMap(v, npix, opening_angle) ==
    [data |-> [n \in {ORIG} |-> RawArray(v)], npix |-> npix,
     opening_angle |-> opening_angle]

Positions == (0..MaxPos) \X (0..MaxPos)

\* <<npix, opening_angle>> of the sky maps a run is started on
Grids == {<<4, 1>>, <<6, 2>>}

Range(f) == {f[i] : i \in DOMAIN f}

\* the positions peaks are located at: a corner of the field, its centre,
\* and a point on its lower edge
PeakSites(opening_angle) ==
    LET c == (PosDen * opening_angle) \div 2
    IN  {<<0, 0>>, <<c, c>>, <<c, 0>>}

\* ConvergenceMap(data, angle).locatePeaks(thresholds) of lenstools: some
\* peaks of the map, each a value of the map at a position inside the field
LocatePeaks(data, opening_angle, thr) ==
    {[deltaT |-> [i \in DOMAIN pk |-> pk[i][1]],
      pos_deg |-> [i \in DOMAIN pk |-> pk[i][2]]] :
        pk \in SeqsUpTo(Range(data) \X PeakSites(opening_angle), MaxLocated)}

Init ==
    /\ skymap \in {NewSkyMap(v, g[1], g[2]) : v \in RawFields, g \in Grids}
    /\ args = None
    /\ pc = "idle"
    /\ thresholds = None
    /\ thr_src = <<>>
    /\ located = None
    /\ deltaT = None
    /\ pos_deg = None
    /\ snr = None
    /\ peak_df = None
    /\ df2 = None
    /\ error = None

Raise(e) ==
    /\ pc' = "raised"
    /\ error' = e

\* a caller starts Dipoles.from_sky(skymap, on, bin_dsc, kernel_width, direction, filters)
FromSky ==
    /\ pc = "idle"
    /\ \E on \in VariantNames, bin_on \in VariantNames, nbins \in 1..MaxBins,
          kernel_width \in KernelWidths, direction \in Directions, filters \in BOOLEAN :
          args' = [on |-> on, bin_dsc |-> [on |-> bin_on, nbins |-> nbins],
                   kernel_width |-> kernel_width, direction |-> direction,
                   filters |-> filters]
    /\ pc' = "filter"
    /\ UNCHANGED <<skymap, thresholds, thr_src, located, deltaT, pos_deg, snr,
                   peak_df, df2, error>>

\* lines 66-67, filters is True
ApplyFilter ==
    /\ pc = "filter"
    /\ args.filters
    /\ skymap' \in Filter(skymap, args.kernel_width, args.direction)
    /\ pc' = "thresholds"
    /\ UNCHANGED <<args, thresholds, thr_src, located, deltaT, pos_deg, snr,
                   peak_df, df2, error>>

\* lines 66-67, filters is not True
SkipFilter ==
    /\ pc = "filter"
    /\ ~args.filters
    /\ pc' = "thresholds"
    /\ UNCHANGED <<skymap, args, thresholds, thr_src, located, deltaT, pos_deg, snr,
                   peak_df, df2, error>>

\* lines 69-73: skymap.data[bin_dsc["on"]], then the threshold builder
BuildThresholds ==
    /\ pc = "thresholds"
    /\ IF args.bin_dsc.on \notin DOMAIN skymap.data
       THEN /\ Raise("KeyError")
            /\ UNCHANGED <<thresholds, thr_src>>
       ELSE LET sky_array == skymap.data[args.bin_dsc.on]
                r == GetConvergenceThresholds(sky_array.vals, args.bin_dsc.nbins)
            IN  /\ thr_src' = Append(thr_src, sky_array)
                /\ IF r.ok
                   THEN /\ thresholds' = [bins |-> r.val, den |-> ThrDen(args.bin_dsc.nbins)]
                        /\ pc' = "locate"
                        /\ UNCHANGED error
                   ELSE /\ Raise(r.err)
                        /\ UNCHANGED thresholds
    /\ UNCHANGED <<skymap, args, located, deltaT, pos_deg, snr, peak_df, df2>>

\* lines 75-79: skymap.data[on], then lenstools' peak finder
FindPeaks ==
    /\ pc = "locate"
    /\ IF args.on \notin DOMAIN skymap.data
       THEN /\ Raise("KeyError")
            /\ UNCHANGED located
       ELSE /\ located' \in LocatePeaks(skymap.data[args.on].vals,
                                        skymap.opening_angle, thresholds)
            /\ pc' = "edge"
            /\ UNCHANGED error
    /\ UNCHANGED <<skymap, args, thresholds, thr_src, deltaT, pos_deg, snr, peak_df, df2>>

\* lines 80-82: edge rejection
RejectEdgePeaks ==
    /\ pc = "edge"
    /\ LET r == RemovePeaksCrossingEdge(skymap.npix, skymap.opening_angle,
                                        args.kernel_width, located.deltaT,
                                        located.pos_deg)
       IN  /\ deltaT' = r.sigma
           /\ pos_deg' = r.pos
    /\ pc' = "assert"
    /\ UNCHANGED <<skymap, args, thresholds, thr_src, located, snr, peak_df, df2, error>>

\* lines 80-82 when locatePeaks found nothing: pos[:, 0] needs a second axis,
\* which an empty position array may lack
RejectEdgeNoPeaks ==
    /\ pc = "edge"
    /\ located.deltaT = <<>>
    /\ Raise("IndexError")
    /\ UNCHANGED <<skymap, args, thresholds, thr_src, located, deltaT, pos_deg, snr,
                   peak_df, df2>>

\* the run going on without the check of line 83
AssertPeaksDropped ==
    /\ pc = "assert"
    /\ pc' = "snr"
    /\ UNCHANGED <<skymap, args, thresholds, thr_src, located, deltaT, pos_deg, snr,
                   peak_df, df2, error>>

\* line 83: assert len(deltaT) != 0, "No peaks"
AssertPeaks ==
    /\ pc = "assert"
    /\ IF Len(deltaT) # 0
       THEN /\ pc' = "snr"
            /\ UNCHANGED error
       ELSE Raise("AssertionError")
    /\ UNCHANGED <<skymap, args, thresholds, thr_src, located, deltaT, pos_deg, snr,
                   peak_df, df2>>

\* line 91: peak_dir["snr"] from the amplitudes and _map.data = skymap.data[on]
ScorePeaks ==
    /\ pc = "snr"
    /\ snr' = SignalToNoiseRatio(deltaT, skymap.data[args.on].vals)
    /\ pc' = "table"
    /\ UNCHANGED <<skymap, args, thresholds, thr_src, located, deltaT, pos_deg,
                   peak_df, df2, error>>

\* lines 84-88 and 92-102: the rows of the DataFrame and its attrs
PeakTable(amps, pos, ratios, sky, a) ==
    [rows |-> [i \in DOMAIN amps |->
                  [deltaT |-> amps[i], x_deg |-> pos[i][1], y_deg |-> pos[i][2],
                   snr |-> ratios[i],
                   x_pix |-> Rint(ToPixel(pos[i][1], sky.npix, sky.opening_angle)),
                   y_pix |-> Rint(ToPixel(pos[i][2], sky.npix, sky.opening_angle))]],
     attrs |-> [filters |-> a.filters, kernel_width |-> a.kernel_width],
     index_dipole |-> None,
     distances |-> None]

\* lines 92-103: the peak table, and the Dipoles object around it
BuildTable ==
    /\ pc = "table"
    /\ peak_df' = PeakTable(deltaT, pos_deg, snr, skymap, args)
    /\ pc' = "done"
    /\ UNCHANGED <<skymap, args, thresholds, thr_src, located, deltaT, pos_deg, snr,
                   df2, error>>

\* from_sky returns the Dipoles object to its caller, or the exception
\* reaches the caller; the SkyMap outlives the call
Return ==
    /\ pc \in {"done", "raised"}
    /\ pc' = "idle"
    /\ args' = None
    /\ thresholds' = None
    /\ thr_src' = <<>>
    /\ located' = None
    /\ deltaT' = None
    /\ pos_deg' = None
    /\ snr' = None
    /\ peak_df' = None
    /\ error' = None
    /\ UNCHANGED <<skymap, df2>>

\* the positions of the peaks and catalog records that are matched
MatchSites == (0..2) \X (0..1)

\* Dipoles.find_nearest(df2), lines 231-238: the neighbours index is fitted on
\* the peak table and queried with df2; the two result arrays are assigned as
\* columns of the peak table, which pandas refuses unless they have one entry
\* per row
FindNearest ==
    /\ pc = "done"
    /\ \E cat \in SeqsUpTo(MatchSites, MaxCatalog) :
        /\ df2' = cat
        /\ \E r \in KNeighbors([i \in DOMAIN peak_df.rows |->
                                   <<peak_df.rows[i].x_deg, peak_df.rows[i].y_deg>>],
                               cat) :
              IF ~r.ok
              THEN /\ Raise(r.err)
                   /\ UNCHANGED peak_df
              ELSE IF Len(r.val.indices) # Len(peak_df.rows)
              THEN /\ Raise("ValueError")
                   /\ UNCHANGED peak_df
              ELSE /\ peak_df' = [peak_df EXCEPT !.index_dipole = r.val.indices,
                                                 !.distances = r.val.distances]
                   /\ pc' = "matched"
                   /\ UNCHANGED error
    /\ UNCHANGED <<skymap, args, thresholds, thr_src, located, deltaT, pos_deg, snr>>

Next ==
    \/ FromSky
    \/ ApplyFilter
    \/ SkipFilter
    \/ BuildThresholds
    \/ FindPeaks
    \/ RejectEdgePeaks
    \/ RejectEdgeNoPeaks
    \/ AssertPeaks
    \/ ScorePeaks
    \/ BuildTable
    \/ Return

\* the detection pipeline, run after run on the same sky map
Spec == Init /\ [][Next]_vars

\* ------------------------------------------- the stages on their own
\* the arguments from_sky defaults to
DefaultArgs ==
    [on |-> ORIG, bin_dsc |-> [on |-> ORIG, nbins |-> 1], kernel_width |-> 5,
     direction |-> 1, filters |-> TRUE]

Fields == [1..FieldLen -> (-MaxVal)..MaxVal]

\* everything at its initial value but what a stage reads
Idle ==
    /\ thresholds = None
    /\ thr_src = <<>>
    /\ snr = None
    /\ peak_df = None
    /\ df2 = None
    /\ error = None

\* the threshold builder on every field and bin count
InitThresholds ==
    /\ Idle
    /\ pc = "thresholds"
    /\ skymap \in {NewSkyMap(v, 4, 1) : v \in Fields}
    /\ args \in {[DefaultArgs EXCEPT !.bin_dsc.nbins = n] : n \in 1..MaxBins}
    /\ located = None
    /\ deltaT = None
    /\ pos_deg = None

SpecThresholds == InitThresholds /\ [][BuildThresholds]_vars

\* positions on the diagonal of the field and on the two lines through the
\* point half a degree from both lower edges
EdgeSites ==
    {q \in Positions : q[1] = q[2] \/ q[1] = PosDen \div 2 \/ q[2] = PosDen \div 2}

\* amplitudes of k peaks: all different, or all the same
AmpSeqs(k) == {[i \in 1..k |-> i], [i \in 1..k |-> 1]}

\* the edge rejector on every grid, kernel width and list of peaks
InitEdge ==
    /\ Idle
    /\ pc = "edge"
    /\ skymap \in {NewSkyMap(<<1, 2>>, n, a) : n \in 4..MaxNpix, a \in Angles}
    /\ args \in {[DefaultArgs EXCEPT !.kernel_width = k] : k \in KernelWidths}
    /\ \E ps \in SeqsUpTo(EdgeSites, MaxPeaks) :
          located \in {[deltaT |-> amps, pos_deg |-> ps] : amps \in AmpSeqs(Len(ps))}
    /\ deltaT = None
    /\ pos_deg = None

NextEdge ==
    \/ RejectEdgePeaks
    \/ RejectEdgeNoPeaks

SpecEdge == InitEdge /\ [][NextEdge]_vars

\* the significance scorer on every reference field and list of amplitudes
InitSnr ==
    /\ Idle
    /\ pc = "snr"
    /\ skymap \in {NewSkyMap(v, 4, 1) : v \in Fields}
    /\ args = DefaultArgs
    /\ deltaT \in SeqsUpTo((-1)..1, MaxPeaks) \ {<<>>}
    /\ pos_deg = [i \in DOMAIN deltaT |-> <<PosDen, PosDen>>]
    /\ located = [deltaT |-> deltaT, pos_deg |-> pos_deg]

SpecSnr == InitSnr /\ [][ScorePeaks]_vars

\* the catalog matcher on every peak table and catalog
InitNearest ==
    /\ thresholds = None
    /\ thr_src = <<>>
    /\ df2 = None
    /\ error = None
    /\ pc = "done"
    /\ skymap = NewSkyMap(<<1, 2>>, 4, 1)
    /\ args = DefaultArgs
    /\ pos_deg \in SeqsUpTo(MatchSites, MaxPeaks) \ {<<>>}
    /\ deltaT = [i \in DOMAIN pos_deg |-> 1]
    /\ located = [deltaT |-> deltaT, pos_deg |-> pos_deg]
    /\ snr = SignalToNoiseRatio(deltaT, skymap.data[ORIG].vals)
    /\ peak_df = PeakTable(deltaT, pos_deg, snr, skymap, args)

SpecNearest == InitNearest /\ [][FindNearest]_vars

\* ================================================================ claims

\* the buffer of the claim: the least whole number of pixels that is at
\* least kernel_width / (60 * opening_angle / npix)
ClaimBuffer ==
    CHOOSE b \in 0..(args.kernel_width * skymap.npix) :
        /\ b * 60 * skymap.opening_angle >= args.kernel_width * skymap.npix
        /\ (b - 1) * 60 * skymap.opening_angle < args.kernel_width * skymap.npix

\* buffer_px <= px <= npix - 1 - buffer_px for px = p * npix / opening_angle,
\* p in units of 1/PosDen degree, multiplied out
ClaimAxisKept(p) ==
    /\ ClaimBuffer * PosDen * skymap.opening_angle <= p * skymap.npix
    /\ p * skymap.npix <= (skymap.npix - 1 - ClaimBuffer) * PosDen * skymap.opening_angle

ClaimKept(q) == ClaimAxisKept(q[1]) /\ ClaimAxisKept(q[2])

\* C1: edge rejection retains exactly the peaks with
\* buffer_px <= px <= npix - 1 - buffer_px on both axes, where
\* px = pos_deg * npix / opening_angle and
\* buffer_px = ceil(kernel_width / (60 * opening_angle / npix)); in
\* particular a peak at buffer_px - 1 on an axis is never retained, and a peak
\* at exactly buffer_px on one axis and in range on the other is
C1_EdgeRejectionCriterion ==
    pc = "assert" =>
        /\ pos_deg = SelectSeq(located.pos_deg, ClaimKept)
        /\ Len(deltaT) = Len(pos_deg)
        /\ \A i \in DOMAIN located.pos_deg :
               LET q == located.pos_deg[i]
               IN  /\ (\E a \in 1..2 : q[a] * skymap.npix =
                           (ClaimBuffer - 1) * PosDen * skymap.opening_angle)
                          => q \notin Range(pos_deg)
                   /\ (/\ q[1] * skymap.npix = ClaimBuffer * PosDen * skymap.opening_angle
                       /\ ClaimAxisKept(q[2]))
                          => q \in Range(pos_deg)

\* C1 witness: of two located peaks, the one at exactly buffer_px was retained
\* and the one at buffer_px - 1 was rejected
C1_Witness ==
    /\ pc = "assert"
    /\ Len(located.pos_deg) = 2
    /\ located.pos_deg[1][1] * skymap.npix = ClaimBuffer * PosDen * skymap.opening_angle
    /\ located.pos_deg[2][1] * skymap.npix =
           (ClaimBuffer - 1) * PosDen * skymap.opening_angle
    /\ pos_deg = <<located.pos_deg[1]>>

\* C10: edge rejection keeps amplitudes and positions paired: both results
\* have the same length, no more than the input's, and are the input's entries
\* at one and the same increasing list of indices
C10_EdgeRejectionKeepsPairs ==
    pc = "assert" =>
        /\ Len(deltaT) = Len(pos_deg)
        /\ Len(deltaT) <= Len(located.deltaT)
        /\ \E f \in [1..Len(deltaT) -> 1..Len(located.deltaT)] :
               /\ \A i, j \in 1..Len(deltaT) : i < j => f[i] < f[j]
               /\ \A i \in 1..Len(deltaT) :
                      /\ deltaT[i] = located.deltaT[f[i]]
                      /\ pos_deg[i] = located.pos_deg[f[i]]

\* C10 witness: the first of two located peaks was rejected and the second
\* came through with its own amplitude
C10_Witness ==
    /\ pc = "assert"
    /\ Len(located.deltaT) = 2
    /\ located.deltaT[1] # located.deltaT[2]
    /\ deltaT = <<located.deltaT[2]>>
    /\ pos_deg = <<located.pos_deg[2]>>

\* the field the thresholds of this run were asked for
ThresholdField == skymap.data[args.bin_dsc.on].vals

StrictlyIncreasing(s) == \A i, j \in DOMAIN s : i < j => s[i] < s[j]

\* C2: for a field of non-zero range the threshold builder returns nbins + 1
\* strictly increasing boundaries, the first <= min(field) and the last
\* >= max(field)
C2_ThresholdsCoverField ==
    (pc \in {"locate", "raised"} /\ SeqMin(ThresholdField) # SeqMax(ThresholdField)) =>
        /\ pc = "locate"
        /\ Len(thresholds.bins) = args.bin_dsc.nbins + 1
        /\ StrictlyIncreasing(thresholds.bins)
        /\ thresholds.bins[1] <= thresholds.den * SeqMin(ThresholdField)
        /\ thresholds.bins[Len(thresholds.bins)] >= thresholds.den * SeqMax(ThresholdField)

\* C5: on a constant field the threshold builder raises
C5_ConstantFieldRaises ==
    (pc \in {"locate", "raised"} /\ SeqMin(ThresholdField) = SeqMax(ThresholdField)) =>
        pc = "raised"

\* C6: on a constant reference field significance scoring raises and
\* returns no ratios
C6_ZeroSigmaRaises ==
    (/\ pc \in {"table", "raised"}
     /\ SeqMin(skymap.data[args.on].vals) = SeqMax(skymap.data[args.on].vals)) =>
        /\ pc = "raised"
        /\ snr = None

PeakAt(i) == <<peak_df.rows[i].x_deg, peak_df.rows[i].y_deg>>

\* C3: find_nearest gives every peak the index of, and the distance to, the
\* catalog record nearest to it: one entry per peak, the index a row of the
\* catalog, and distance 0 with the record's own index when a record lies on
\* the peak
C3_NearestCatalogRecord ==
    (pc \in {"matched", "raised"} /\ df2 # <<>>) =>
        /\ pc = "matched"
        /\ Len(peak_df.index_dipole) = Len(peak_df.rows)
        /\ Len(peak_df.distances) = Len(peak_df.rows)
        /\ \A i \in DOMAIN peak_df.rows :
               /\ peak_df.index_dipole[i] \in 0..(Len(df2) - 1)
               /\ peak_df.distances[i].sq = Dist2(PeakAt(i), df2[peak_df.index_dipole[i] + 1])
               /\ \A k \in DOMAIN df2 : peak_df.distances[i].sq <= Dist2(PeakAt(i), df2[k])

\* C7: in every run the thresholds are built once, from the raw field
C7_ThresholdsFromRawOnce ==
    pc \in {"locate", "edge", "assert", "snr", "table", "done"} =>
        /\ Len(thr_src) = 1
        /\ thr_src[1] = skymap.data[ORIG]

\* the stages a run has been through
HasLocated ==
    \/ pc \in {"edge", "assert", "snr", "table", "done"}
    \/ pc = "raised" /\ error \in {"IndexError", "AssertionError"}

HasRejected ==
    \/ pc \in {"assert", "snr", "table", "done"}
    \/ pc = "raised" /\ error = "AssertionError"

\* C4: no peak table has zero rows; a run whose peak location found nothing,
\* or whose edge rejection discarded every peak, has raised once it is past
\* line 83, with no ratio computed and no table built
C4_NoEmptyPeakTable ==
    /\ pc = "done" => Len(peak_df.rows) > 0
    /\ pc \in {"table", "done"} => Len(snr) > 0
    /\ (HasLocated /\ located.deltaT = <<>> /\ pc \notin {"edge", "assert"}) =>
           (pc = "raised" /\ snr = None /\ peak_df = None)
    /\ (HasRejected /\ deltaT = <<>> /\ pc # "assert") =>
           (pc = "raised" /\ error = "AssertionError" /\ snr = None /\ peak_df = None)

\* C4 witness: peaks were located, edge rejection discarded every one of
\* them, and the run raised
C4_Witness ==
    /\ pc = "raised"
    /\ error = "AssertionError"
    /\ located.deltaT # <<>>
    /\ deltaT = <<>>
    /\ peak_df = None

\* C8: the stored filtered variant is the raw map put through high-pass,
\* third derivative along direction, absolute value and low-pass, in this
\* order and with one kernel width; right after the filter stage these are
\* the run's kernel_width and direction
C8_FilterOrder ==
    FILTERED \in DOMAIN skymap.data =>
        LET h == skymap.data[FILTERED].hist
        IN  /\ Len(h) = 4
            /\ h[1].kind = "gaussian_high_pass"
            /\ h[2].kind = "gaussian_third_derivative"
            /\ h[3].kind = "abs"
            /\ h[4].kind = "gaussian_low_pass"
            /\ h[1].theta_i = h[2].theta_i
            /\ h[2].theta_i = h[4].theta_i
            /\ (pc = "thresholds" /\ args.filters) =>
                   /\ h[1].theta_i = args.kernel_width
                   /\ h[2].direction = args.direction

\* C8 witness: a run has just left the filter stage
C8_Witness ==
    /\ pc = "thresholds"
    /\ args.filters
    /\ FILTERED \in DOMAIN skymap.data
    /\ skymap.data[FILTERED].hist[4] = Step("gaussian_low_pass", args.kernel_width, None)

\* a step of the filter stage with filters = True
FilterStep == pc = "filter" /\ args.filters /\ pc' = "thresholds"

====
